---- MODULE Spec2Model ----
(***************************************************************************)
(* Model of packages/next-swc/crates/next-api/src/dynamic_imports.rs:      *)
(* the collection of `dynamic(import('...'))` call sites over the module   *)
(* reference graph (collect_next_dynamic_imports), the per-module          *)
(* extraction (build_dynamic_imports_map_for_module) and the two syntax    *)
(* tree visitors (LodableImportVisitor, CollectImportSourceVisitor).       *)
(*                                                                         *)
(* Rust's Option<T> is a sequence of length at most one: <<>> is None and  *)
(* <<x>> is Some(x).                                                       *)
(***************************************************************************)
EXTENDS Integers, Sequences, FiniteSets, TLC

VARIABLES
    references,       \* the module graph: module -> Vec of primary referenced modules
    resolve,          \* esm_resolve(..).first_module(): specifier -> Option<Module>
    assets,           \* module -> Option<what the module system holds for it>
    pc,               \* position in collect_next_dynamic_imports
    visited,          \* SkipDuplicates: the HashSet of nodes already inserted
    output,           \* NonDeterministic: the Vec of nodes in insertion order
    futures,          \* FuturesUnordered: module -> number of edge futures in flight
    idx,              \* position of the `for module_mapping in ..` loop in output
    import_mappings,  \* the IndexMap being filled: sequence of [key, value]
    returned,         \* Option<Result>: what collect_next_dynamic_imports returned
    issues,           \* the diagnostics emitted so far in this run
    calls,            \* module -> times build_dynamic_imports_map_for_module was applied
    failure,          \* Option<the collaborator call that failed in this run>
    run,              \* "first" or "second" invocation over the same graph
    first_returned,   \* what the first invocation returned
    extraction,       \* Option<outcome of the last per-module extraction>
    task,             \* Option<the call of the extraction that is in flight>
    yielded           \* the (origin, list) results the loop has taken in, in order

vars == <<references, yielded, resolve, assets, pc, visited, output, futures,
          idx, import_mappings, returned, issues, calls, failure, run,
          first_returned, extraction, task>>

-----------------------------------------------------------------------------
(* Bounds of the checked instances.                                        *)

\* The longest module body (number of top-level items) that is enumerated.
MaxItems == 3

-----------------------------------------------------------------------------
(* Syntax trees (swc ecma ast), as far as the visitors look at them.       *)

Ident(sym) == [type |-> "Ident", sym |-> sym]
Str(value) == [type |-> "Lit", value |-> value]
Arrow(body) == [type |-> "Arrow", body |-> body]
Object(props) == [type |-> "Object", props |-> props]
CalleeImport == [type |-> "Import"]
CalleeExpr(expr) == [type |-> "Expr", expr |-> expr]
CallExpr(callee, args) == [type |-> "Call", callee |-> callee, args |-> args]
ImportSpecifier(kind, local) == [type |-> kind, local |-> local]
ImportDecl(src, specifiers) ==
    [type |-> "ImportDecl", src |-> src, specifiers |-> specifiers]
ExprStmt(expr) == [type |-> "ExprStmt", expr |-> expr]

\* The children a default swc Visit walks into, in source order.
Children(node) ==
    CASE node.type = "Call" ->
            (IF node.callee.type = "Expr" THEN <<node.callee.expr>> ELSE <<>>)
                \o node.args
      [] node.type = "Arrow" -> <<node.body>>
      [] node.type = "Object" -> node.props
      [] node.type = "ExprStmt" -> <<node.expr>>
      [] OTHER -> <<>>

-----------------------------------------------------------------------------
(* CollectImportSourceVisitor: self is import_source, an Option<String>.   *)

CollectImportSourceVisitor_new == <<>>

\* A plausible slip: the first argument is recorded whatever expression it is.
collect_visit_call_expr_any_arg(self, call_expr) ==
    IF call_expr.callee.type = "Import" /\ Len(call_expr.args) > 0
    THEN IF call_expr.args[1].type = "Lit"
         THEN <<call_expr.args[1].value>>
         ELSE IF call_expr.args[1].type = "Ident"
              THEN <<call_expr.args[1].sym>>
              ELSE self
    ELSE self

collect_visit_call_expr(self, call_expr) ==
    IF call_expr.callee.type = "Import"
    THEN IF Len(call_expr.args) > 0
         THEN IF call_expr.args[1].type = "Lit"
              THEN <<call_expr.args[1].value>>
              ELSE self
         ELSE self
    ELSE self

RECURSIVE collect_visit_all(_, _)
\* Visit dispatch of the nested visitor: a call expression goes to
\* visit_call_expr, which does not descend; any other node is walked through.
collect_visit(self, node) ==
    IF node.type = "Call"
    THEN collect_visit_call_expr(self, node)
    ELSE collect_visit_all(self, Children(node))

\* The visitor is &mut self: its state after a node is settled (next = next
\* evaluates it) before the walk goes on to the node's siblings.
collect_visit_all(self, nodes) ==
    IF nodes = <<>> THEN self
    ELSE LET next == collect_visit(self, Head(nodes))
         IN  IF next = next THEN collect_visit_all(next, Tail(nodes)) ELSE next

-----------------------------------------------------------------------------
(* LodableImportVisitor: self is [dynamic_ident, import_sources].          *)

LodableImportVisitor_new == [dynamic_ident |-> <<>>, import_sources |-> <<>>]

visit_import_decl(self, decl) ==
    IF decl.src = "next/dynamic"
    THEN IF Len(decl.specifiers) > 0 /\ decl.specifiers[1].type = "default"
         THEN [self EXCEPT !.dynamic_ident = <<decl.specifiers[1].local>>]
         ELSE self
    ELSE self

\* A plausible slip: without a tracked binding the conventional name is matched.
callee_is_dynamic_ident_or_default(self, call_expr) ==
    /\ call_expr.callee.type = "Expr"
    /\ call_expr.callee.expr.type = "Ident"
    /\ call_expr.callee.expr.sym =
           (IF self.dynamic_ident # <<>> THEN self.dynamic_ident[1] ELSE "dynamic")

\* Whether the callee of call_expr is the identifier tracked in dynamic_ident.
callee_is_dynamic_ident(self, call_expr) ==
    /\ call_expr.callee.type = "Expr"
    /\ call_expr.callee.expr.type = "Ident"
    /\ self.dynamic_ident # <<>>
    /\ call_expr.callee.expr.sym = self.dynamic_ident[1]

RECURSIVE lodable_visit_all(_, _)
visit_call_expr(self, call_expr) ==
    LET import_source ==
            collect_visit_all(CollectImportSourceVisitor_new, Children(call_expr))
        collected ==
            IF callee_is_dynamic_ident(self, call_expr) /\ import_source # <<>>
            THEN [self EXCEPT !.import_sources = Append(@, import_source[1])]
            ELSE self
    IN  lodable_visit_all(collected, Children(call_expr))

lodable_visit(self, node) ==
    CASE node.type = "ImportDecl" -> visit_import_decl(self, node)
      [] node.type = "Call" -> visit_call_expr(self, node)
      [] OTHER -> lodable_visit_all(self, Children(node))

\* As in collect_visit_all, the state after a node is settled before the
\* siblings are visited.
lodable_visit_all(self, nodes) ==
    IF nodes = <<>> THEN self
    ELSE LET next == lodable_visit(self, Head(nodes))
         IN  IF next = next THEN lodable_visit_all(next, Tail(nodes)) ELSE next

\* program.visit_with(&mut visitor): the visitor after the walk over the body.
visit_with(program) == lodable_visit_all(LodableImportVisitor_new, program)

-----------------------------------------------------------------------------
(* The inputs: modules, module bodies, what the module system holds.       *)

Modules == {"app.js", "a.js", "b.js", "widget.js", "chart.js"}
Entry == "app.js"
Specifiers == {"./widget", "./chart"}

DynamicCall(sym, args) == ExprStmt(CallExpr(CalleeExpr(Ident(sym)), args))
ImportCall(arg) == CallExpr(CalleeImport, <<arg>>)

\* import dynamic from 'next/dynamic'
ImportDynamic == ImportDecl("next/dynamic", <<ImportSpecifier("default", "dynamic")>>)
\* import lazy from 'next/dynamic'
ImportLazy == ImportDecl("next/dynamic", <<ImportSpecifier("default", "lazy")>>)
\* import { lazy } from 'next/dynamic'
ImportNamed == ImportDecl("next/dynamic", <<ImportSpecifier("named", "lazy")>>)
\* import lazy from 'react'
ImportOther == ImportDecl("react", <<ImportSpecifier("default", "lazy")>>)

\* The top-level items module bodies are built from.
Items ==
    { ImportDynamic, ImportLazy, ImportNamed, ImportOther,
      \* dynamic(import('./widget'))
      DynamicCall("dynamic", <<ImportCall(Str("./widget"))>>),
      \* dynamic(import('./chart'))
      DynamicCall("dynamic", <<ImportCall(Str("./chart"))>>),
      \* lazy(import('./chart'))
      DynamicCall("lazy", <<ImportCall(Str("./chart"))>>),
      \* lazy(() => import('./widget'))
      DynamicCall("lazy", <<Arrow(ImportCall(Str("./widget")))>>),
      \* dynamic(getPath())
      DynamicCall("dynamic", <<CallExpr(CalleeExpr(Ident("getPath")), <<>>)>>),
      \* dynamic(import(path))
      DynamicCall("dynamic", <<ImportCall(Ident("path"))>>),
      \* dynamic(() => import('./widget'), { loading: () => import('./chart') })
      DynamicCall("dynamic", <<Arrow(ImportCall(Str("./widget"))),
                               Object(<<Arrow(ImportCall(Str("./chart")))>>)>>),
      \* getPath(dynamic(import('./chart')), dynamic(import('./chart')))
      DynamicCall("getPath",
          <<CallExpr(CalleeExpr(Ident("dynamic")), <<ImportCall(Str("./chart"))>>),
            CallExpr(CalleeExpr(Ident("dynamic")), <<ImportCall(Str("./chart"))>>)>>),
      \* dynamic(getPath(import('./widget')))
      DynamicCall("dynamic",
          <<CallExpr(CalleeExpr(Ident("getPath")), <<ImportCall(Str("./widget"))>>)>>) }

Programs == UNION { [1..n -> Items] : n \in 0..MaxItems }

\* What the module system holds for a module: its kind and its parse result.
OtherAsset == [type |-> "Other", parse |-> "None", program |-> <<>>]
Unparsable == [type |-> "EcmascriptModuleAsset", parse |-> "Unparsable", program |-> <<>>]
Parsed(program) ==
    [type |-> "EcmascriptModuleAsset", parse |-> "Ok", program |-> program]

ModuleAssets == {OtherAsset, Unparsable} \cup { Parsed(p) : p \in Programs }

\* Each specifier resolves to its module or to none.
ResolveFns ==
    { f \in [Specifiers -> {<<>>, <<"widget.js">>, <<"chart.js">>}] :
        /\ f["./widget"] # <<"chart.js">>
        /\ f["./chart"] # <<"widget.js">> }

\* A module body holds at most two wrapper calls per item.
MaxSources == 2 * MaxItems

\* The collaborator call that fails (returns Err) during one extraction:
\* the downcast of the module, the parse-result fetch, or the resolution of
\* the n-th import source, whichever it is.
NoFault == [at |-> "none", n |-> 0]
FaultPoints ==
    { NoFault, [at |-> "downcast", n |-> 0], [at |-> "parse", n |-> 0] }
        \cup { [at |-> "resolve", n |-> n] : n \in 1..MaxSources }

-----------------------------------------------------------------------------
(* build_dynamic_imports_map_for_module.                                   *)

NextDynamicParsingIssue(ident) ==
    [severity |-> "warning", category |-> "parsing", file_path |-> ident,
     title |-> "Unable to parse source file"]

\* esm_resolve(origin, request).first_module(): all origins of one run share
\* the asset context, so the outcome is read from the run's resolve table; a
\* request the table does not know resolves to no module.
esm_resolve(res, origin, request) ==
    IF request \in DOMAIN res THEN res[request] ELSE <<>>

\* A plausible slip: the pair is put in front instead of at the end.
push_front(import_sources, import, module) == <<<<import, module>>>> \o import_sources

push(import_sources, import, module) == Append(import_sources, <<import, module>>)

RECURSIVE resolve_loop(_, _, _, _, _, _)
\* The `for import in visitor.import_sources.drain(..)` loop from its i-th
\* iteration on: [ok, import_sources]; ok is FALSE when esm_resolve failed.
resolve_loop(i, module, sources, res, fault, import_sources) ==
    IF i > Len(sources) THEN [ok |-> TRUE, import_sources |-> import_sources]
    ELSE IF fault.at = "resolve" /\ fault.n = i
    THEN [ok |-> FALSE, import_sources |-> import_sources]
    ELSE LET dynamic_imported_resolved_module == esm_resolve(res, module, sources[i])
         IN  resolve_loop(i + 1, module, sources, res, fault,
                 IF dynamic_imported_resolved_module # <<>>
                 THEN push(import_sources, sources[i],
                           dynamic_imported_resolved_module[1])
                 ELSE import_sources)

\* The outcome of one extraction. ok: the function returned Ok; value: the
\* Option<(module, import_sources)> it returned; issues: the diagnostics it
\* emitted; sources: visitor.import_sources after the walk, when there was one.
Outcome(ok, value, emitted, sources) ==
    [ok |-> ok, value |-> value, issues |-> emitted, sources |-> sources]

OptionDynamicImportsMap_none(sources) == Outcome(TRUE, <<>>, <<>>, sources)

\* A plausible slip: the issue is built but .emit() is left out.
emit_never(issue) == <<>>

\* A plausible slip: the issue is emitted at the failure and again on return.
emit_twice(issue) == <<issue, issue>>

\* NextDynamicParsingIssue { .. }.cell().emit()
emit(issue) == <<issue>>

build_dynamic_imports_map_for_module(module, asset, res, fault) ==
    IF fault.at = "downcast" THEN Outcome(FALSE, <<>>, <<>>, <<>>)
    ELSE IF asset.type # "EcmascriptModuleAsset"
    THEN OptionDynamicImportsMap_none(<<>>)
    ELSE IF fault.at = "parse" THEN Outcome(FALSE, <<>>, <<>>, <<>>)
    ELSE IF asset.parse # "Ok"
    THEN Outcome(TRUE, <<>>, emit(NextDynamicParsingIssue(module)), <<>>)
    ELSE LET visitor == visit_with(asset.program)
         IN  IF visitor.import_sources = <<>>
             THEN OptionDynamicImportsMap_none(<<>>)
             ELSE LET r == resolve_loop(1, module, visitor.import_sources, res,
                                        fault, <<>>)
                  IN  IF r.ok
                      THEN Outcome(TRUE, << <<module, r.import_sources>> >>,
                                   <<>>, visitor.import_sources)
                      ELSE Outcome(FALSE, <<>>, <<>>, visitor.import_sources)

-----------------------------------------------------------------------------
NoReferences == [m \in Modules |-> <<>>]

-----------------------------------------------------------------------------
(* The module graphs that are traversed, entry app.js.                     *)

Graph(app, a, b, widget, chart) ==
    [m \in Modules |->
        CASE m = "app.js" -> app
          [] m = "a.js" -> a
          [] m = "b.js" -> b
          [] m = "widget.js" -> widget
          [] m = "chart.js" -> chart]

\* app -> a -> b; widget and chart are not referenced from the entry
GraphChain == Graph(<<"a.js">>, <<"b.js">>, <<>>, <<"chart.js">>, <<>>)
\* app -> a, b; a -> widget; b -> widget; chart references the entry
GraphDiamond ==
    Graph(<<"a.js", "b.js">>, <<"widget.js">>, <<"widget.js">>, <<>>, <<"app.js">>)
\* app -> a, b; a -> widget; b -> chart
GraphFork ==
    Graph(<<"a.js", "b.js">>, <<"widget.js">>, <<"chart.js">>, <<>>, <<>>)
\* app -> a -> b -> app
GraphCycle == Graph(<<"a.js">>, <<"b.js">>, <<"app.js">>, <<>>, <<>>)
\* app -> app, a; a -> a
GraphSelf == Graph(<<"app.js", "a.js">>, <<"a.js">>, <<>>, <<>>, <<>>)
\* app -> a, a, b; a -> b
GraphTwice == Graph(<<"a.js", "a.js", "b.js">>, <<"b.js">>, <<>>, <<>>, <<>>)

Graphs == {NoReferences, GraphChain, GraphDiamond, GraphFork, GraphCycle,
           GraphSelf, GraphTwice}

\* The module bodies met during a collection.
\* import lazy from 'react'; lazy(import('./chart'))
PlainProgram ==
    <<ImportOther, DynamicCall("lazy", <<ImportCall(Str("./chart"))>>)>>
\* import dynamic from 'next/dynamic'; dynamic(import('./widget'));
\* dynamic(import('./chart'))
AppProgram ==
    <<ImportDynamic, DynamicCall("dynamic", <<ImportCall(Str("./widget"))>>),
      DynamicCall("dynamic", <<ImportCall(Str("./chart"))>>)>>

CollectedAssets == {OtherAsset, Unparsable, Parsed(PlainProgram), Parsed(AppProgram)}

\* What the module system may hold for a module: the two modules that the
\* traversals reach only as leaves are no script or a script with wrapper calls.
CollectedAssetsOf(module) ==
    IF module \in {"widget.js", "chart.js"}
    THEN {OtherAsset, Parsed(AppProgram)}
    ELSE CollectedAssets

-----------------------------------------------------------------------------
(* One call of build_dynamic_imports_map_for_module, poll by poll: the     *)
(* function returns to the executor at each .await, so a call in flight is *)
(* at the downcast (line 79), at the parse (84), or, for its i-th import   *)
(* source, at the read of the asset (109) or at the resolution (118).      *)

NewTask(module) == [module |-> module, at |-> "downcast", i |-> 0]

\* The awaited call succeeds, or fails if it is one that can fail.
FaultsAt(at, i) ==
    {f \in FaultPoints : f = NoFault \/ (f.at = at /\ f.n = i)}

\* The function returns r: the task is done and its result can be read.
Finish(r, fault) ==
    /\ extraction' = <<r>>
    /\ task' = <<>>
    /\ failure' = IF r.ok THEN failure
                  ELSE <<[at |-> fault.at, module |-> task[1].module]>>

\* Vc::try_resolve_downcast_type::<EcmascriptModuleAsset>(module).await?
\* What the module system holds for the module is learnt at its first read.
TaskDowncast ==
    /\ task # <<>>
    /\ task[1].at = "downcast"
    /\ LET module == task[1].module
       IN  \/ \E fault \in FaultsAt("downcast", 0) \ {NoFault} :
                /\ Finish(Outcome(FALSE, <<>>, <<>>, <<>>), fault)
                /\ UNCHANGED assets
           \/ \E asset \in (IF assets[module] = <<>>
                             THEN CollectedAssetsOf(module)
                             ELSE {assets[module][1]}) :
                /\ assets' = [assets EXCEPT ![module] = <<asset>>]
                /\ IF asset.type # "EcmascriptModuleAsset"
                   THEN Finish(build_dynamic_imports_map_for_module(
                                   module, asset, resolve, NoFault), NoFault)
                   ELSE /\ task' = <<[task[1] EXCEPT !.at = "parse"]>>
                        /\ UNCHANGED <<extraction, failure>>
    /\ UNCHANGED <<references, yielded, resolve, pc, visited, output, futures,
                   idx, import_mappings, returned, issues, calls, run,
                   first_returned>>

\* ecmascript_asset.parse().await?, then up to the next await: the issue is
\* emitted, or the program is walked and the loop over its import sources
\* entered.
TaskParse ==
    /\ task # <<>>
    /\ task[1].at = "parse"
    /\ LET module == task[1].module
           asset == assets[module][1]
       IN  \E fault \in FaultsAt("parse", 0) :
             LET r == build_dynamic_imports_map_for_module(
                          module, asset, resolve, fault)
             IN  IF fault # NoFault \/ r.sources = <<>>
                 THEN /\ Finish(r, fault)
                      /\ issues' = issues \o r.issues
                 ELSE /\ task' = <<[task[1] EXCEPT !.at = "origin", !.i = 1]>>
                      /\ UNCHANGED <<extraction, failure, issues>>
    /\ UNCHANGED <<references, yielded, resolve, assets, pc, visited, output,
                   futures, idx, import_mappings, returned, calls, run,
                   first_returned>>

\* ecmascript_asset.await?.asset_context, for the i-th import source
TaskOrigin ==
    /\ task # <<>>
    /\ task[1].at = "origin"
    /\ LET module == task[1].module
           asset == assets[module][1]
       IN  \E fault \in FaultsAt("resolve", task[1].i) :
             IF fault # NoFault
             THEN Finish(build_dynamic_imports_map_for_module(
                             module, asset, resolve, fault), fault)
             ELSE /\ task' = <<[task[1] EXCEPT !.at = "resolve"]>>
                  /\ UNCHANGED <<extraction, failure>>
    /\ UNCHANGED <<references, yielded, resolve, assets, pc, visited, output,
                   futures, idx, import_mappings, returned, issues, calls, run,
                   first_returned>>

\* esm_resolve(..).first_module().await? for the i-th import source, the push,
\* and then the next import source or Ok(Some((module, import_sources)))
TaskResolve ==
    /\ task # <<>>
    /\ task[1].at = "resolve"
    /\ LET module == task[1].module
           asset == assets[module][1]
           r == build_dynamic_imports_map_for_module(
                    module, asset, resolve, NoFault)
       IN  \E fault \in FaultsAt("resolve", task[1].i) :
             IF fault # NoFault
             THEN Finish(build_dynamic_imports_map_for_module(
                             module, asset, resolve, fault), fault)
             ELSE IF task[1].i = Len(r.sources)
             THEN Finish(r, NoFault)
             ELSE /\ task' = <<[task[1] EXCEPT !.at = "origin", !.i = @ + 1]>>
                  /\ UNCHANGED <<extraction, failure>>
    /\ UNCHANGED <<references, yielded, resolve, assets, pc, visited, output,
                   futures, idx, import_mappings, returned, issues, calls, run,
                   first_returned>>

-----------------------------------------------------------------------------
(* One extraction on its own: the module system holds one module body, and *)
(* build_dynamic_imports_map_for_module is applied to it.                  *)

InitModule ==
    /\ references = NoReferences
    /\ yielded = <<>>
    /\ resolve \in ResolveFns
    /\ \E asset \in ModuleAssets :
           assets = [m \in Modules |-> IF m = Entry THEN <<asset>> ELSE <<>>]
    /\ pc = "module"
    /\ visited = {}
    /\ output = <<>>
    /\ futures = [m \in Modules |-> 0]
    /\ idx = 0
    /\ import_mappings = <<>>
    /\ returned = <<>>
    /\ issues = <<>>
    /\ calls = [m \in Modules |-> 0]
    /\ failure = <<>>
    /\ run = "first"
    /\ first_returned = <<>>
    /\ extraction = <<>>
    /\ task = <<>>

\* build_dynamic_imports_map_for_module(entry) is called.
ExtractModule ==
    /\ pc = "module"
    /\ task' = <<NewTask(Entry)>>
    /\ calls' = [calls EXCEPT ![Entry] = @ + 1]
    /\ pc' = "extracted"
    /\ UNCHANGED <<references, yielded, resolve, assets, visited, output,
                   futures, idx, import_mappings, returned, issues, failure,
                   run, first_returned, extraction>>

NextModule ==
    \/ ExtractModule
    \/ TaskDowncast
    \/ TaskParse
    \/ TaskOrigin
    \/ TaskResolve

SpecModule == InitModule /\ [][NextModule]_vars

-----------------------------------------------------------------------------
(* The traversal: NonDeterministic::new().skip_duplicates().visit(..).     *)
(* A store is [visited, output, spawned]: the SkipDuplicates set, the      *)
(* NonDeterministic Vec, and the nodes whose edges future was pushed.      *)

is_duplicate(store, node) == node \in store.visited

\* A plausible slip: a node seen before is still handed to the store, only its
\* edges future is not pushed again.
insert_seen_again(store, node) ==
    [visited |-> store.visited \cup {node},
     output |-> Append(store.output, node),
     spawned |-> IF node \in store.visited THEN store.spawned
                 ELSE Append(store.spawned, node)]

\* SkipDuplicates::insert over the NonDeterministic store: a node seen before
\* is skipped, it reaches neither the store nor the edges futures; a new node
\* is remembered, appended to the store and has its edges future pushed.
insert(store, node) ==
    IF is_duplicate(store, node)
    THEN store
    ELSE [visited |-> store.visited \cup {node},
          output |-> Append(store.output, node),
          spawned |-> Append(store.spawned, node)]

RECURSIVE insert_all(_, _)
insert_all(store, edges) ==
    IF edges = <<>> THEN store
    ELSE insert_all(insert(store, Head(edges)), Tail(edges))

\* A plausible slip: only the first referenced module is followed.
get_referenced_modules_first(parent) ==
    IF references[parent] = <<>> THEN <<>> ELSE <<Head(references[parent])>>

\* A plausible slip: what the dynamic imports resolve to is followed as well.
get_referenced_modules_and_resolved(parent) ==
    references[parent] \o resolve["./widget"] \o resolve["./chart"]

get_referenced_modules(parent) == references[parent]

\* A plausible slip: the first edges future to complete cancels the others.
poll_next_cancel_rest(in_flight, m) == [n \in Modules |-> 0]

\* A plausible slip: the completed edges future is taken out of the set twice.
poll_next_twice(in_flight, m) == [in_flight EXCEPT ![m] = @ - 2]

\* FuturesUnordered::poll_next yielding the future of m: it leaves the set.
poll_next(in_flight, m) == [in_flight EXCEPT ![m] = @ - 1]

Count(seq, x) == Cardinality({i \in 1..Len(seq) : seq[i] = x})

Store == [visited |-> visited, output |-> output, spawned |-> <<>>]

-----------------------------------------------------------------------------
(* collect_next_dynamic_imports.                                           *)

Ok(value) == [ok |-> TRUE, value |-> <<value>>]
Err == [ok |-> FALSE, value |-> <<>>]

\* A plausible slip: the error is swallowed and the mapping built so far returned.
propagate_partial(mapping) == Ok(mapping)

\* The `?` on a failed await: the function returns the error.
propagate(mapping) == Err

KeyIndex(mapping, key) == {i \in 1..Len(mapping) : mapping[i].key = key}

\* A plausible slip: import_mappings.insert(key, list), which replaces the list.
entry_insert(mapping, key, list) ==
    IF KeyIndex(mapping, key) = {}
    THEN Append(mapping, [key |-> key, value |-> list])
    ELSE LET i == CHOOSE i \in KeyIndex(mapping, key) : TRUE
         IN  [mapping EXCEPT ![i].value = list]

\* import_mappings.entry(key).or_insert_with(Vec::new).append(list)
entry_or_insert_append(mapping, key, list) ==
    IF KeyIndex(mapping, key) = {}
    THEN Append(mapping, [key |-> key, value |-> list])
    ELSE LET i == CHOOSE i \in KeyIndex(mapping, key) : TRUE
         IN  [mapping EXCEPT ![i].value = @ \o list]

Init ==
    /\ references \in Graphs
    /\ yielded = <<>>
    /\ resolve \in ResolveFns
    /\ assets = [m \in Modules |-> <<>>]
    /\ pc = "start"
    /\ visited = {}
    /\ output = <<>>
    /\ futures = [m \in Modules |-> 0]
    /\ idx = 0
    /\ import_mappings = <<>>
    /\ returned = <<>>
    /\ issues = <<>>
    /\ calls = [m \in Modules |-> 0]
    /\ failure = <<>>
    /\ run = "first"
    /\ first_returned = <<>>
    /\ extraction = <<>>
    /\ task = <<>>

\* .visit([Vc::upcast(entry)], get_referenced_modules): the root is inserted
\* and its edges future pushed.
StartVisit ==
    /\ pc = "start"
    /\ LET store == insert_all(Store, <<Entry>>)
       IN  /\ visited' = store.visited
           /\ output' = store.output
           /\ futures' = [n \in Modules |-> futures[n] + Count(store.spawned, n)]
    /\ pc' = "visit"
    /\ UNCHANGED <<task, references, yielded, resolve, assets, idx, import_mappings, returned,
                   issues, calls, failure, run, first_returned, extraction>>

\* The edges future of m completes with Ok(edges): every edge is inserted, and
\* the edges future of each node that was no duplicate is pushed.
ExpandBranch(m) ==
    /\ pc = "visit"
    /\ futures[m] > 0
    /\ LET store == insert_all(Store, get_referenced_modules(m))
           rest == poll_next(futures, m)
       IN  /\ visited' = store.visited
           /\ output' = store.output
           /\ futures' = [n \in Modules |-> rest[n] + Count(store.spawned, n)]
    /\ UNCHANGED <<task, references, yielded, resolve, assets, pc, idx, import_mappings,
                   returned, issues, calls, failure, run, first_returned,
                   extraction>>

\* The edges future of m completes with Err: .completed()? returns it.
ExpandFails(m) ==
    /\ pc = "visit"
    /\ futures[m] > 0
    /\ failure' = <<[at |-> "edges", module |-> m]>>
    /\ returned' = <<propagate(import_mappings)>>
    /\ pc' = "done"
    /\ UNCHANGED <<task, references, yielded, resolve, assets, visited, output, futures, idx,
                   import_mappings, issues, calls, run, first_returned,
                   extraction>>

\* No edges future is left: the traversal is completed, the loop starts.
TraversalCompleted ==
    /\ pc = "visit"
    /\ \A m \in Modules : futures[m] = 0
    /\ pc' = "aggregate"
    /\ idx' = 1
    /\ UNCHANGED <<task, references, yielded, resolve, assets, visited, output, futures,
                   import_mappings, returned, issues, calls, failure, run,
                   first_returned, extraction>>

\* #[turbo_tasks::function]: a call with the arguments of a completed call is
\* answered with that call's result; the body is not run and emits nothing.
memoized(outcome) == [outcome EXCEPT !.issues = <<>>]

\* Whether a call for module is answered from the task cache. A call that
\* repeats one of this run is; a call that repeats one of an earlier run is
\* unless the module system has dropped the result since; a first call is not.
CacheHits(module) ==
    IF assets[module] = <<>> THEN {FALSE}
    ELSE IF calls[module] >= 1 THEN {TRUE}
    ELSE BOOLEAN

\* The top of an iteration of `for module_mapping in imported_modules_mapping`:
\* the lazy iterator calls build_dynamic_imports_map_for_module(output[idx]).
\* A call answered from the task cache has its result at once.
CallExtraction ==
    /\ pc = "aggregate"
    /\ idx <= Len(output)
    /\ LET module == output[idx]
       IN  /\ calls' = [calls EXCEPT ![module] = @ + 1]
           /\ \E hit \in CacheHits(module) :
                IF hit
                THEN /\ extraction' =
                            <<memoized(build_dynamic_imports_map_for_module(
                                  module, assets[module][1], resolve, NoFault))>>
                     /\ task' = <<>>
                ELSE /\ extraction' = <<>>
                     /\ task' = <<NewTask(module)>>
    /\ pc' = "await"
    /\ UNCHANGED <<references, yielded, resolve, assets, visited, output,
                   futures, idx, import_mappings, returned, issues, failure,
                   run, first_returned>>

\* `&*module_mapping.await?` (line 54): the task has returned. An Err returns
\* from the collection, none ends the iteration, Some goes on to line 55.
AwaitExtraction ==
    /\ pc = "await"
    /\ task = <<>>
    /\ extraction # <<>>
    /\ LET r == extraction[1]
       IN  IF ~r.ok
           THEN /\ returned' = <<propagate(import_mappings)>>
                /\ pc' = "done"
                /\ UNCHANGED idx
           ELSE IF r.value = <<>>
           THEN /\ idx' = idx + 1
                /\ pc' = "aggregate"
                /\ UNCHANGED returned
           ELSE /\ pc' = "insert"
                /\ UNCHANGED <<idx, returned>>
    /\ UNCHANGED <<task, references, yielded, resolve, assets, visited, output,
                   futures, import_mappings, issues, calls, failure, run,
                   first_returned, extraction>>

\* `&*module_mapping.await?` (line 55). The read of the (origin, list) cell
\* fails, and `?` returns the error with nothing inserted; or it gives the
\* pair, and lines 56-59 append the list under the origin.
Insert ==
    /\ pc = "insert"
    /\ LET origin_module == extraction[1].value[1][1]
           dynamic_imports == extraction[1].value[1][2]
       IN  \/ /\ failure' = <<[at |-> "read", module |-> origin_module]>>
              /\ returned' = <<propagate(import_mappings)>>
              /\ pc' = "done"
              /\ UNCHANGED <<import_mappings, idx, yielded>>
           \/ /\ import_mappings' =
                     entry_or_insert_append(import_mappings, origin_module,
                                            dynamic_imports)
              /\ yielded' = Append(yielded, <<origin_module, dynamic_imports>>)
              /\ idx' = idx + 1
              /\ pc' = "aggregate"
              /\ UNCHANGED <<returned, failure>>
    /\ UNCHANGED <<task, references, resolve, assets, visited, output,
                   futures, issues, calls, run, first_returned, extraction>>

\* Ok(import_mappings)
Return ==
    /\ pc = "aggregate"
    /\ idx > Len(output)
    /\ returned' = <<Ok(import_mappings)>>
    /\ pc' = "done"
    /\ UNCHANGED <<task, references, yielded, resolve, assets, visited, output, futures, idx,
                   import_mappings, issues, calls, failure, run, first_returned,
                   extraction>>

\* collect_next_dynamic_imports is invoked again over the unchanged graph,
\* parse results and resolution: everything local to the run starts afresh.
Rerun ==
    /\ pc = "done"
    /\ run = "first"
    /\ returned[1].ok
    /\ first_returned' = returned
    /\ run' = "second"
    /\ pc' = "start"
    /\ visited' = {}
    /\ output' = <<>>
    /\ futures' = [m \in Modules |-> 0]
    /\ idx' = 0
    /\ import_mappings' = <<>>
    /\ returned' = <<>>
    /\ issues' = <<>>
    /\ calls' = [m \in Modules |-> 0]
    /\ failure' = <<>>
    /\ extraction' = <<>>
    /\ yielded' = <<>>
    /\ UNCHANGED <<task, references, resolve, assets>>

Next ==
    \/ StartVisit
    \/ \E m \in Modules : ExpandBranch(m)
    \/ \E m \in Modules : ExpandFails(m)
    \/ TraversalCompleted
    \/ CallExtraction
    \/ TaskDowncast
    \/ TaskParse
    \/ TaskOrigin
    \/ TaskResolve
    \/ AwaitExtraction
    \/ Insert
    \/ Return
    \/ Rerun

Spec == Init /\ [][Next]_vars

-----------------------------------------------------------------------------
(* What the properties below speak of.                                     *)

Range(seq) == {seq[i] : i \in 1..Len(seq)}

RECURSIVE Closure(_)
\* The least set holding S that is closed under the referenced-modules relation.
Closure(S) ==
    LET T == S \cup UNION { Range(references[m]) : m \in S }
    IN  IF T = S THEN S ELSE Closure(T)

Reachable == Closure({Entry})

\* X is referenced by two different reachable modules: two paths lead to it.
MultiPath(X) ==
    /\ X \in Reachable
    /\ Cardinality({p \in Reachable : X \in Range(references[p])}) >= 2

Done == pc = "done"
Succeeded == Done /\ returned # <<>> /\ returned[1].ok
ReturnedMapping == returned[1].value[1]
Keys(mapping) == {mapping[i].key : i \in 1..Len(mapping)}
Extracted == {m \in Modules : calls[m] >= 1}

-----------------------------------------------------------------------------
C2_ExtractedIsReachable == Succeeded => Extracted = Reachable

\* A diamond beside a module that references the entry but is not reachable.
C2_Witness ==
    /\ Succeeded
    /\ references = GraphDiamond
    /\ Extracted = {"app.js", "a.js", "b.js", "widget.js"}
    /\ "chart.js" \notin Extracted

-----------------------------------------------------------------------------
(* One extraction: the module body read and the outcome observed.          *)

ExtractedOk == extraction # <<>> /\ extraction[1].ok
Body == assets[Entry][1].program
BodyParsed == assets[Entry] # <<>> /\ assets[Entry][1].parse = "Ok"

\* The pairs (s, resolve(s)) of the specifiers of sources that resolve, in the
\* order of sources.
ResolvedSubsequence(sources, res) ==
    LET kept == SelectSeq(sources, LAMBDA s : res[s] # <<>>)
    IN  [i \in 1..Len(kept) |-> <<kept[i], res[kept[i]][1]>>]

\* C3: when the visitor found the specifiers s1..sn (n >= 1) in module M, the
\* extraction returns M with exactly the pairs (si, resolve(M, si)) of those
\* si that resolve to a module, in the order of s1..sn; a specifier that does
\* not resolve contributes no pair.
C3_ResolvedInOrder ==
    (ExtractedOk /\ extraction[1].sources # <<>>) =>
        extraction[1].value =
            << <<Entry, ResolvedSubsequence(extraction[1].sources, resolve)>> >>

\* './widget' resolves to widget.js and './chart' does not resolve.
C3_Witness ==
    /\ ExtractedOk
    /\ extraction[1].sources = <<"./widget", "./chart">>
    /\ resolve["./chart"] = <<>>
    /\ extraction[1].value = << <<Entry, << <<"./widget", "widget.js">> >> >> >>

\* C4: every key of the returned Import Mapping maps to a non-empty list (a
\* module all of whose specifiers fail to resolve is not a key).
C4_EveryKeyNonEmpty ==
    Succeeded => \A i \in 1..Len(ReturnedMapping) : ReturnedMapping[i].value # <<>>

-----------------------------------------------------------------------------
\* The body imports the wrapper once, as the default import bound to x.
ImportsWrapperAs(program, x) ==
    /\ \E i \in 1..Len(program) :
           program[i] = ImportDecl("next/dynamic", <<ImportSpecifier("default", x)>>)
    /\ Cardinality({i \in 1..Len(program) :
           program[i].type = "ImportDecl" /\ program[i].src = "next/dynamic"}) = 1

\* C5: in every module that imports the wrapper under the local name lazy and
\* calls lazy(import('./chart')), the visitor's output contains './chart'.
C5_RenamedBindingRecorded ==
    (/\ ExtractedOk
     /\ BodyParsed
     /\ ImportsWrapperAs(Body, "lazy")
     /\ \E j \in 1..Len(Body) :
            Body[j] = DynamicCall("lazy", <<ImportCall(Str("./chart"))>>))
        => "./chart" \in Range(extraction[1].sources)

-----------------------------------------------------------------------------
RECURSIVE Descendants(_)
\* A node and every node below it.
Descendants(node) ==
    {node} \cup UNION { Descendants(Children(node)[i]) :
                            i \in 1..Len(Children(node)) }

\* The values of the string literals that are the first argument of an
\* import() call somewhere in the body.
LiteralImportSources(program) ==
    { n.args[1].value :
        n \in { d \in UNION { Descendants(program[i]) : i \in 1..Len(program) } :
                  /\ d.type = "Call"
                  /\ d.callee.type = "Import"
                  /\ Len(d.args) > 0
                  /\ d.args[1].type = "Lit" } }

\* The wrapper calls whose argument is not a dynamic load of a string literal:
\* dynamic(getPath()), dynamic(import(path)), dynamic(getPath(import('./widget')))
NonLiteralCalls ==
    { DynamicCall("dynamic", <<CallExpr(CalleeExpr(Ident("getPath")), <<>>)>>),
      DynamicCall("dynamic", <<ImportCall(Ident("path"))>>),
      DynamicCall("dynamic",
          <<CallExpr(CalleeExpr(Ident("getPath")), <<ImportCall(Str("./widget"))>>)>>) }

Remove(seq, i) == SubSeq(seq, 1, i - 1) \o SubSeq(seq, i + 1, Len(seq))

\* C6: every specifier the visitor emits is the string literal argument of an
\* import() call of the body; and a wrapper call whose argument is no dynamic
\* load of a string literal contributes nothing: the output is what it is
\* with that call left out, so the other wrapper calls are all still recorded.
C6_OnlyLiterals ==
    (ExtractedOk /\ BodyParsed) =>
        /\ Range(extraction[1].sources) \subseteq LiteralImportSources(Body)
        /\ \A i \in 1..Len(Body) :
               Body[i] \in NonLiteralCalls =>
                   extraction[1].sources = visit_with(Remove(Body, i)).import_sources

\* import dynamic from 'next/dynamic'; dynamic(import(path));
\* dynamic(import('./widget'))
C6_Witness ==
    /\ ExtractedOk
    /\ BodyParsed
    /\ Body = <<ImportDynamic, DynamicCall("dynamic", <<ImportCall(Ident("path"))>>),
                DynamicCall("dynamic", <<ImportCall(Str("./widget"))>>)>>
    /\ extraction[1].sources = <<"./widget">>

-----------------------------------------------------------------------------
\* The diagnostics emitted for module m in this run.
IssuesFor(m) == SelectSeq(issues, LAMBDA issue : issue.file_path = m)
ParseFailed == {m \in Reachable : assets[m] = <<Unparsable>>}
ValueOf(mapping, key) == mapping[CHOOSE i \in KeyIndex(mapping, key) : TRUE].value

\* C7: a parse failure is not fatal: a run in which no collaborator call failed
\* succeeds; when a run has succeeded, every reachable module whose source
\* could not be parsed is no key of the mapping, has no diagnostic but the
\* warning of category 'parsing' for its path, at most once, and every
\* reachable module, the ones it references included, was extracted; and in
\* the run in which the modules are first extracted it has exactly one.
C7_ParseFailureIsNotFatal ==
    /\ (Done /\ failure = <<>>) => Succeeded
    /\ Succeeded =>
        \A m \in ParseFailed :
            /\ m \notin Keys(ReturnedMapping)
            /\ Len(IssuesFor(m)) <= 1
            /\ \A i \in 1..Len(IssuesFor(m)) :
                   IssuesFor(m)[i] = NextDynamicParsingIssue(m)
            /\ \A n \in Reachable : calls[n] >= 1
    /\ (Succeeded /\ run = "first") =>
        \A m \in ParseFailed :
            /\ Len(IssuesFor(m)) = 1
            /\ IssuesFor(m)[1].severity = "warning"
            /\ IssuesFor(m)[1].category = "parsing"

\* app -> a -> b with a.js unparsable: one diagnostic, b.js extracted.
C7_Witness ==
    /\ Succeeded
    /\ run = "first"
    /\ references = GraphChain
    /\ assets["a.js"] = <<Unparsable>>
    /\ IssuesFor("a.js") = <<NextDynamicParsingIssue("a.js")>>
    /\ "a.js" \notin Keys(ReturnedMapping)
    /\ calls["b.js"] = 1

\* C8: once a collaborator call has failed (the referenced modules of a
\* module, a downcast, a parse-result fetch, a resolution, the read of a
\* result), the collection
\* returns nothing but the failure: it has returned nothing yet or it has
\* returned Err, and when it is done it has returned Err and no mapping,
\* however much of the mapping had been filled.
C8_FailureReturnsNoMapping ==
    /\ failure # <<>> => returned \in {<<>>, <<Err>>}
    /\ (Done /\ failure # <<>>) => returned = <<Err>>

\* A resolution failed after an earlier module's entries had been inserted.
C8_Witness ==
    /\ failure # <<>>
    /\ failure[1].at = "resolve"
    /\ import_mappings # <<>>
    /\ returned = <<Err>>

\* C9: a second run over the unchanged graph, parse results and resolution
\* returns a mapping with the keys of the first run's mapping and, for every
\* key, the same list, whatever the two expansion orders were.
C9_SameContent ==
    (run = "second" /\ Succeeded) =>
        LET first == first_returned[1].value[1]
        IN  /\ Keys(first) = Keys(ReturnedMapping)
            /\ \A k \in Keys(first) : ValueOf(first, k) = ValueOf(ReturnedMapping, k)

\* The two runs expanded the branches in different orders: the keys come in
\* different orders.
C9_Witness ==
    /\ run = "second"
    /\ Succeeded
    /\ first_returned[1].value[1] # ReturnedMapping
    /\ Len(ReturnedMapping) >= 2

-----------------------------------------------------------------------------
\* The import declarations of the wrapper in a body.
WrapperImports(program) ==
    {i \in 1..Len(program) :
        program[i].type = "ImportDecl" /\ program[i].src = "next/dynamic"}

\* C11: a module without any import of 'next/dynamic' yields "no dynamic
\* imports", whatever calls it contains: the visitor records nothing and the
\* extraction returns none, so the loop has nothing to insert for it.
C11_NoWrapperImportNoEntries ==
    (ExtractedOk /\ BodyParsed /\ WrapperImports(Body) = {}) =>
        /\ extraction[1].sources = <<>>
        /\ extraction[1].value = <<>>

\* import lazy from 'react'; dynamic(import('./widget')), './widget' resolving.
C11_Witness ==
    /\ ExtractedOk
    /\ BodyParsed
    /\ Body = <<ImportOther, DynamicCall("dynamic", <<ImportCall(Str("./widget"))>>)>>
    /\ resolve["./widget"] = <<"widget.js">>
    /\ extraction[1].value = <<>>

\* C12: the output does not depend on where the import declaration of the
\* wrapper sits: with the (single) declaration moved to the top of the body
\* the visitor's output is the same.
C12_ImportPositionIrrelevant ==
    (ExtractedOk /\ BodyParsed) =>
        \A i \in WrapperImports(Body) :
            Cardinality(WrapperImports(Body)) = 1 =>
                extraction[1].sources =
                    visit_with(<<Body[i]>> \o Remove(Body, i)).import_sources

\* dynamic(() => import('./widget'), { loading: () => import('./chart') })
TwoLoads ==
    DynamicCall("dynamic", <<Arrow(ImportCall(Str("./widget"))),
                             Object(<<Arrow(ImportCall(Str("./chart")))>>)>>)
\* dynamic(() => import('./widget'))
FirstLoadOnly == DynamicCall("dynamic", <<Arrow(ImportCall(Str("./widget")))>>)

Replace(seq, i, x) == [seq EXCEPT ![i] = x]

\* C13: first match wins: a wrapper call whose arguments hold two dynamic
\* loads records what the call with the first dynamic load alone records.
C13_FirstMatchWins ==
    (ExtractedOk /\ BodyParsed) =>
        \A i \in 1..Len(Body) :
            Body[i] = TwoLoads =>
                extraction[1].sources =
                    visit_with(Replace(Body, i, FirstLoadOnly)).import_sources

-----------------------------------------------------------------------------
(* The consolidation loop on its own (lines 53-63), over any sequence of   *)
(* per-module results: the loop takes whatever the iterator yields, so     *)
(* here a module may recur and the results yielded for it may differ.      *)

MaxYielded == 3
YieldedModules == {"app.js", "a.js", "b.js"}

\* The lists a per-module result may hold.
YieldedLists ==
    { <<>>,
      << <<"./widget", "widget.js">> >>,
      << <<"./chart", "chart.js">>, <<"./widget", "widget.js">> >> }

\* What the item yielded for module may turn out to be when it is awaited:
\* Err, Ok(none) or Ok(Some((module, list))).
Results(module) ==
    { Outcome(FALSE, <<>>, <<>>, <<>>), OptionDynamicImportsMap_none(<<>>) }
        \cup { Outcome(TRUE, << <<module, list>> >>, <<>>, <<>>) :
                   list \in YieldedLists }

InitAggregate ==
    /\ references = NoReferences
    /\ yielded = <<>>
    /\ resolve \in ResolveFns
    /\ assets = [m \in Modules |-> <<>>]
    /\ pc = "aggregate"
    /\ output \in UNION {[1..n -> YieldedModules] : n \in 0..MaxYielded}
    /\ visited = {output[i] : i \in 1..Len(output)}
    /\ futures = [m \in Modules |-> 0]
    /\ idx = 1
    /\ import_mappings = <<>>
    /\ returned = <<>>
    /\ issues = <<>>
    /\ calls = [m \in Modules |-> 0]
    /\ failure = <<>>
    /\ run = "first"
    /\ first_returned = <<>>
    /\ extraction = <<>>
    /\ task = <<>>

\* The top of an iteration of `for module_mapping in imported_modules_mapping`
\* when the loop is taken on its own: the iterator yields the next item, and
\* the task behind it ends with one of the results it may have.
YieldResult ==
    /\ pc = "aggregate"
    /\ idx <= Len(output)
    /\ LET module == output[idx]
       IN  /\ calls' = [calls EXCEPT ![module] = @ + 1]
           /\ \E r \in Results(module) :
                /\ extraction' = <<r>>
                /\ failure' = IF r.ok THEN failure
                              ELSE <<[at |-> "task", module |-> module]>>
    /\ pc' = "await"
    /\ UNCHANGED <<task, references, yielded, resolve, assets, visited, output,
                   futures, idx, import_mappings, returned, issues, run,
                   first_returned>>

NextAggregate ==
    \/ YieldResult
    \/ AwaitExtraction
    \/ Insert
    \/ Return

SpecAggregate == InitAggregate /\ [][NextAggregate]_vars

RECURSIVE ConcatYields(_, _)
\* The lists of the first n results taken in whose origin is k, concatenated
\* in the order in which they were taken in.
ConcatYields(k, n) ==
    IF n = 0 THEN <<>>
    ELSE ConcatYields(k, n - 1) \o
         (IF yielded[n][1] = k THEN yielded[n][2] ELSE <<>>)

\* C14: the loop merges by append and never overwrites: after any number of
\* iterations, over any sequence of per-module results (an origin may recur,
\* with the same or another list), a module is a key at most once, it is a
\* key exactly when some result was taken in for it, and its list is the
\* concatenation, in observation order, of the lists taken in for it so far;
\* the mapping returned is that mapping.
C14_AppendNeverOverwrite ==
    /\ \A k \in Modules :
        /\ Cardinality(KeyIndex(import_mappings, k)) <= 1
        /\ k \in Keys(import_mappings) <=>
               \E i \in 1..Len(yielded) : yielded[i][1] = k
        /\ k \in Keys(import_mappings) =>
               ValueOf(import_mappings, k) = ConcatYields(k, Len(yielded))
    /\ Succeeded => ReturnedMapping = import_mappings

\* app.js is observed twice, around a.js, with two different lists: its list
\* is the first followed by the second.
C14_Witness ==
    /\ Succeeded
    /\ yielded = << <<"app.js", << <<"./widget", "widget.js">> >> >>,
                    <<"a.js", << <<"./widget", "widget.js">> >> >>,
                    <<"app.js", << <<"./chart", "chart.js">>,
                                   <<"./widget", "widget.js">> >> >> >>
    /\ Keys(ReturnedMapping) = {"app.js", "a.js"}
    /\ ValueOf(ReturnedMapping, "app.js") =
           << <<"./widget", "widget.js">>, <<"./chart", "chart.js">>,
              <<"./widget", "widget.js">> >>

-----------------------------------------------------------------------------
\* C15: no result is inserted into the mapping while the extraction of a
\* reachable module has not yet been started: whenever the mapping holds an
\* entry, every reachable module has been handed to the extraction.
C15_InsertAfterAllExtractions ==
    import_mappings # <<>> => \A m \in Reachable : calls[m] >= 1

-----------------------------------------------------------------------------
(* The traversal on its own, with the scheduling the executor provides: a  *)
(* pushed edges future is polled to completion, and the visit completes    *)
(* once FuturesUnordered is empty. Nothing forces a future to fail.        *)

InitTraversal == Init

NextTraversal ==
    \/ StartVisit
    \/ \E m \in Modules : ExpandBranch(m)
    \/ \E m \in Modules : ExpandFails(m)
    \/ TraversalCompleted

SpecTraversal ==
    /\ InitTraversal
    /\ [][NextTraversal]_vars
    /\ WF_vars(StartVisit)
    /\ WF_vars(\E m \in Modules : ExpandBranch(m))
    /\ WF_vars(TraversalCompleted)

\* C16: on every graph (cyclic ones included) the traversal eventually
\* terminates, completed or failed; while a reachable module is unvisited an
\* edges future is still pending, so the traversal cannot complete; and when
\* it has completed no future is pending and every reachable module, and no
\* other, has been visited.
C16_TraversalTerminates ==
    /\ [](pc = "aggregate" =>
            /\ \A m \in Modules : futures[m] = 0
            /\ visited = Reachable
            /\ Range(output) = Reachable)
    /\ []((pc = "visit" /\ visited # Reachable) =>
            \E m \in Modules : futures[m] > 0)
    /\ <>(pc \in {"aggregate", "done"})

\* The traversal of the cycle app -> a -> b -> app has completed.
C16_Witness ==
    /\ pc = "aggregate"
    /\ references = GraphCycle
    /\ output = <<"app.js", "a.js", "b.js">>
    /\ \A m \in Modules : futures[m] = 0

-----------------------------------------------------------------------------
\* The modules that entries of the mapping point to.
Targets(mapping) ==
    UNION {{mapping[i].value[j][2] : j \in 1..Len(mapping[i].value)} :
              i \in 1..Len(mapping)}

\* The module system holds nothing the extraction records for the module.
Fruitless(m) ==
    assets[m] # <<>> /\ assets[m][1] \in {OtherAsset, Unparsable, Parsed(PlainProgram)}

\* C17: the visited set depends on the entry and the references only. A
\* module that is not reachable through references is never visited and never
\* extracted, even when it is what a dynamic import resolved to; once the
\* traversal has completed the visited set is the reachable set; and the
\* references of a module that is no script, fails to parse or has no wrapper
\* calls are followed like any other.
C17_VisitedFollowsReferencesOnly ==
    /\ \A m \in Modules : m \notin Reachable => (m \notin visited /\ calls[m] = 0)
    /\ (pc = "aggregate" \/ Succeeded) => visited = Reachable
    /\ Succeeded =>
           \A m \in Reachable :
               Fruitless(m) => Range(references[m]) \subseteq Extracted

\* app -> a -> b: a.js failed to parse and b.js was extracted all the same;
\* widget.js, the target of app's dynamic import, was not.
C17_Witness ==
    /\ Succeeded
    /\ references = GraphChain
    /\ assets["app.js"] = <<Parsed(AppProgram)>>
    /\ assets["a.js"] = <<Unparsable>>
    /\ calls["b.js"] = 1
    /\ "widget.js" \in Targets(ReturnedMapping)
    /\ "widget.js" \notin visited
    /\ calls["widget.js"] = 0

-----------------------------------------------------------------------------
(* The collection over a module system whose resolution answers within the *)
(* graph: whatever a specifier resolves to is a module of the reference    *)
(* graph of the entry.                                                     *)

InitResolvedInGraph ==
    /\ Init
    /\ \A s \in Specifiers : resolve[s] # <<>> => resolve[s][1] \in Reachable

SpecResolvedInGraph == InitResolvedInGraph /\ [][Next]_vars

\* C18: in the returned mapping the target of every entry is a module that
\* the traversal from the entry visited, and every entry (specifier, target)
\* holds the module that the resolution returned for the specifier: no entry
\* has a missing target.
C18_TargetsInTraversedSet ==
    Succeeded =>
        /\ Targets(ReturnedMapping) \subseteq visited
        /\ \A i \in 1..Len(ReturnedMapping) :
               \A j \in 1..Len(ReturnedMapping[i].value) :
                   LET pair == ReturnedMapping[i].value[j]
                   IN  /\ pair[1] \in DOMAIN resolve
                       /\ resolve[pair[1]] = <<pair[2]>>

\* app -> a -> widget and app -> b -> chart: the entries of app.js point to
\* widget.js and chart.js, which the traversal reached through a.js and b.js.
C18_Witness ==
    /\ Succeeded
    /\ references = GraphFork
    /\ \E i \in 1..Len(ReturnedMapping) :
           /\ ReturnedMapping[i].key = "app.js"
           /\ ReturnedMapping[i].value =
                  << <<"./widget", "widget.js">>, <<"./chart", "chart.js">> >>
    /\ {"widget.js", "chart.js"} \subseteq visited

-----------------------------------------------------------------------------
\* dynamic(import('v'))
LiteralLoad(v) == DynamicCall("dynamic", <<ImportCall(Str(v))>>)

\* The literals of the calls of a body made of LiteralLoad calls and imports.
LiteralsInOrder(program) ==
    LET loads == SelectSeq(program, LAMBDA item : item.type # "ImportDecl")
    IN  [i \in 1..Len(loads) |->
            CHOOSE v \in Specifiers : loads[i] = LiteralLoad(v)]

\* C19: in a module that imports the wrapper as dynamic and otherwise consists
\* of k calls dynamic(import('<literal>')), the visitor emits k specifiers,
\* those of the calls in source order, equal literals included.
C19_EveryWrapperCallRecorded ==
    (/\ ExtractedOk
     /\ BodyParsed
     /\ ImportsWrapperAs(Body, "dynamic")
     /\ \A i \in 1..Len(Body) :
            Body[i] = ImportDynamic \/ \E v \in Specifiers : Body[i] = LiteralLoad(v))
    => extraction[1].sources = LiteralsInOrder(Body)

====
